---- MODULE Spec2Model ----
(***************************************************************************)
(* Chunk Uploader (src/main.rs): main validates the byte range against the *)
(* file's length and calls do_upload, which seeks once, then reads and     *)
(* sends one chunk per loop iteration.                                     *)
(*                                                                         *)
(* u64/usize values are scaled down from 64 bits: they range over          *)
(* 0..MaxWord and wrap modulo MaxWord + 1.  File lengths and offsets the   *)
(* operating system accepts, and the sizes a Vec<u8> accepts, are the      *)
(* values of the signed type of the same width (i64 / isize): 0..MaxOff.   *)
(* The target is taken to be 64-bit (usize = u64).                         *)
(***************************************************************************)
EXTENDS Integers, Sequences, FiniteSets, TLC

\* ---------------------------------------------------------------- bounds
\* largest value of the scaled-down u64 (stands for u64::MAX)
MaxWord == 15

Modulus == MaxWord + 1
\* largest value of the scaled-down i64 / isize (stands for i64::MAX)
MaxOff == MaxWord \div 2
Word == 0..MaxWord

\* ------------------------------------------------------- program constants
StatusOK == 200
\* statuses a server is made to answer with
Statuses == {200, 201, 204, 503}
\* what client.send() returns: Ok(response with a status) or Err(transport)
Responses == [ok : {TRUE}, status : Statuses] \cup {[ok |-> FALSE, status |-> 0]}

None == [some |-> FALSE, start |-> 0, end |-> 0]
Some(s, e) == [some |-> TRUE, start |-> s, end |-> e]

VARIABLES
    fileLen,          \* file.metadata().len()
    file_range,       \* Option<(u64, u64)> parsed from -r
    chunk_size,       \* u64 parsed from -c
    overflow_checks,  \* build profile: TRUE = arithmetic overflow panics
    pc,               \* "main" | "seek" | "loop" | "read" | "send" | "check" | "done"
    file_start,       \* do_upload parameter
    file_end,         \* do_upload parameter
    start,            \* loop cursor
    end,              \* end of the current chunk
    buf,              \* the current chunk's buffer
    n,                \* bytes returned by the last read
    pos,              \* position of the file handle
    seekLog,          \* history: one record per seek call
    readLog,          \* history: one record per read call
    requests,         \* history: one record per HTTP request sent
    outcome,          \* "Running" | "Success" | "Failure" | "Panic"
    reason            \* why the run ended

vars == <<fileLen, file_range, chunk_size, overflow_checks, pc, file_start,
          file_end, start, end, buf, n, pos, seekLog, readLog, requests,
          outcome, reason>>

inputs == <<fileLen, file_range, chunk_size, overflow_checks>>

\* --------------------------------------------------------------- helpers
Min(a, b) == IF a < b THEN a ELSE b
Max(a, b) == IF a > b THEN a ELSE b

\* the byte stored at offset i of the source file (non-zero, all distinct)
SourceByte(i) == i + 1

\* vec![0; len]
Zeros(len) == [i \in 1..len |-> 0]

\* u64 addition in a build without overflow checks
WrapAdd(a, b) == (a + b) % Modulus

\* u64 addition that a build with overflow checks panics on
Overflows(a, b) == a + b > MaxWord

\* mutant: the chunk end is never clamped to the end of the range
PlanChunk_NoClamp(s, cs, fe) == [end |-> WrapAdd(s, cs), len |-> cs]

\* main.rs:195-200  the (end, buffer length) of the chunk at cursor s
PlanChunk(s, cs, fe) ==
    IF WrapAdd(s, cs) > fe
    THEN [end |-> WrapAdd(s, fe - s), len |-> fe - s]
    ELSE [end |-> WrapAdd(s, cs), len |-> cs]

\* mutant: the loop also runs with the cursor at the end of the range
LoopContinues_Inclusive(s, fe) == s <= fe

\* main.rs:194  loop condition
LoopContinues(s, fe) == s < fe

\* mutant: every 2xx status counts as success
SendFails_Any2xx(res) == IF res.ok THEN res.status \notin 200..299 ELSE TRUE

\* mutant: a transport error is ignored
SendFails_IgnoreErr(res) == IF res.ok THEN res.status # StatusOK ELSE FALSE

\* main.rs:213-227  does the result of send() end the run in failure?
SendFails(res) == IF res.ok THEN res.status # StatusOK ELSE TRUE

\* mutant: the cursor is not advanced
NextCursor_Stay(s, cs) == s

\* main.rs:233  start += chunk_size (in a build without overflow checks)
NextCursor(s, cs) == WrapAdd(s, cs)

\* mutant: the n == 0 test is dropped
ShouldBreak_OnlyShort(k, cs) == k < cs

\* mutant: only an empty read stops the loop
ShouldBreak_OnlyZero(k, cs) == k = 0

\* mutant: a full chunk stops the loop too
ShouldBreak_Inclusive(k, cs) == k = 0 \/ k <= cs

\* main.rs:229  termination check after a chunk
ShouldBreak(k, cs) == k = 0 \/ k < cs

\* mutant: a read error is swallowed
AfterRead_Ignore(isErr) == "send"

\* main.rs:202  where the run goes after read(): Err leaves do_upload via `?`
AfterRead(isErr) == IF isErr THEN "done" ELSE "send"

\* mutant: a seek error is swallowed
AfterSeek_Ignore(isErr) == "loop"

\* main.rs:189-191  where the run goes after seek()
AfterSeek(isErr) == IF isErr THEN "done" ELSE "loop"

\* main.rs:149-158  is the parsed range rejected?
RangeRejected(r, len) == r.some /\ r.end > len

\* main.rs:165  the range handed to do_upload
EffectiveRange(r, len) == IF r.some THEN <<r.start, r.end>> ELSE <<0, len>>

\* mutant: the buffer is cut down to the k bytes read
FillBuf_Truncate(b, p, k) == [i \in 1..Min(k, Len(b)) |-> SourceByte(p + i - 1)]

\* the buffer after read() stored k bytes starting at file position p
FillBuf(b, p, k) == [i \in 1..Len(b) |-> IF i <= k THEN SourceByte(p + i - 1) ELSE b[i]]

\* what read() on a buffer of len bytes can return with the handle at p:
\* Err, or Ok(k) with k at most len and at most the bytes left in the file
ReadResults(len, flen, p) ==
    {[err |-> TRUE, n |-> 0]}
        \cup {[err |-> FALSE, n |-> k] : k \in 0..Min(len, Max(0, flen - p))}

\* ------------------------------------------------------------------ Init
Init ==
    /\ fileLen \in 0..MaxOff
    /\ file_range \in {None} \cup {Some(s, e) : s \in Word, e \in Word}
    /\ chunk_size \in Word
    /\ overflow_checks \in BOOLEAN
    /\ pc = "main"
    /\ file_start = 0
    /\ file_end = 0
    /\ start = 0
    /\ end = 0
    /\ buf = <<>>
    /\ n = 0
    /\ pos = 0
    /\ seekLog = <<>>
    /\ readLog = <<>>
    /\ requests = <<>>
    /\ outcome = "Running"
    /\ reason = "None"

\* the process ends
Finish(o, why) ==
    /\ pc' = "done"
    /\ outcome' = o
    /\ reason' = why

\* --------------------------------------------------------------- actions
\* main.rs:149-177  range validation and the call of do_upload
Main ==
    /\ pc = "main"
    /\ IF RangeRejected(file_range, fileLen)
       THEN /\ Finish("Failure", "ConfigError")
            /\ UNCHANGED <<file_start, file_end>>
       ELSE /\ file_start' = EffectiveRange(file_range, fileLen)[1]
            /\ file_end' = EffectiveRange(file_range, fileLen)[2]
            /\ pc' = "seek"
            /\ UNCHANGED <<outcome, reason>>
    /\ UNCHANGED <<inputs, start, end, buf, n, pos, seekLog, readLog, requests>>

\* main.rs:189-193  file.seek(SeekFrom::Start(file_start)); an offset that
\* does not fit the signed offset type is always refused
Seek ==
    /\ pc = "seek"
    /\ \E isErr \in BOOLEAN :
        /\ file_start > MaxOff => isErr
        /\ seekLog' = Append(seekLog, [offset |-> file_start, err |-> isErr])
        /\ IF AfterSeek(isErr) = "done"
           THEN /\ Finish("Failure", "SeekError")
                /\ UNCHANGED <<pos, start>>
           ELSE /\ pos' = IF isErr THEN pos ELSE file_start
                /\ start' = file_start
                /\ pc' = AfterSeek(isErr)
                /\ UNCHANGED <<outcome, reason>>
    /\ UNCHANGED <<inputs, file_start, file_end, end, buf, n, readLog, requests>>

\* main.rs:194-200  loop test, chunk boundary and buffer allocation
Plan ==
    /\ pc = "loop"
    /\ IF ~LoopContinues(start, file_end)
       THEN /\ Finish("Success", "Completed")
            /\ UNCHANGED <<end, buf>>
       ELSE IF overflow_checks /\ Overflows(start, chunk_size)
       THEN /\ Finish("Panic", "AddOverflow")
            /\ UNCHANGED <<end, buf>>
       ELSE IF PlanChunk(start, chunk_size, file_end).len > MaxOff
       THEN /\ Finish("Panic", "CapacityOverflow")
            /\ UNCHANGED <<end, buf>>
       ELSE /\ end' = PlanChunk(start, chunk_size, file_end).end
            /\ buf' = Zeros(PlanChunk(start, chunk_size, file_end).len)
            /\ pc' = "read"
            /\ UNCHANGED <<outcome, reason>>
    /\ UNCHANGED <<inputs, file_start, file_end, start, n, pos, seekLog, readLog, requests>>

\* main.rs:202  file.read(&mut buf)?  -- an error, or any count up to the
\* buffer length and the bytes left in the file
Read ==
    /\ pc = "read"
    /\ \E r \in ReadResults(Len(buf), fileLen, pos) :
        /\ readLog' = Append(readLog,
                [req |-> Len(buf), n |-> r.n, pos |-> pos, start |-> start, err |-> r.err])
        /\ IF AfterRead(r.err) = "done"
           THEN /\ Finish("Failure", "ReadError")
                /\ UNCHANGED <<buf, n, pos>>
           ELSE /\ n' = r.n
                /\ buf' = FillBuf(buf, pos, r.n)
                /\ pos' = pos + r.n
                /\ pc' = AfterRead(r.err)
                /\ UNCHANGED <<outcome, reason>>
    /\ UNCHANGED <<inputs, file_start, file_end, start, end, seekLog, requests>>

\* main.rs:204-227  build and send the request, inspect the result
Send ==
    /\ pc = "send"
    /\ \E res \in Responses :
        /\ requests' = Append(requests,
                [start |-> start, end |-> end, total |-> file_end,
                 body |-> buf, res |-> res])
        /\ IF SendFails(res)
           THEN Finish("Failure", IF res.ok THEN "HttpStatusError" ELSE "TransportError")
           ELSE /\ pc' = "check"
                /\ UNCHANGED <<outcome, reason>>
    /\ UNCHANGED <<inputs, file_start, file_end, start, end, buf, n, pos, seekLog, readLog>>

\* main.rs:229-236  termination check and cursor advance
Advance ==
    /\ pc = "check"
    /\ IF ShouldBreak(n, chunk_size)
       THEN /\ Finish("Success", "Completed")
            /\ UNCHANGED start
       ELSE IF overflow_checks /\ Overflows(start, chunk_size)
       THEN /\ Finish("Panic", "AddOverflow")
            /\ UNCHANGED start
       ELSE /\ start' = NextCursor(start, chunk_size)
            /\ pc' = "loop"
            /\ UNCHANGED <<outcome, reason>>
    /\ UNCHANGED <<inputs, file_start, file_end, end, buf, n, pos, seekLog, readLog, requests>>

Next == Main \/ Seek \/ Plan \/ Read \/ Send \/ Advance

Spec == Init /\ [][Next]_vars

\* every call (seek, read, send) returns, so an enabled step is taken
FairSpec == Spec /\ WF_vars(Next)

TypeOK ==
    /\ pc \in {"main", "seek", "loop", "read", "send", "check", "done"}
    /\ outcome \in {"Running", "Success", "Failure", "Panic"}
    /\ start \in Word /\ end \in Word /\ n \in Word
    /\ (pc = "done") = (outcome # "Running")
\* ------------------------------------------------------ history predicates
Finished == pc = "done"

\* the initial seek was made and succeeded
SeekSucceeded == Len(seekLog) = 1 /\ ~seekLog[1].err

\* every read so far returned Ok and filled its buffer
AllReadsFull == \A k \in 1..Len(readLog) : ~readLog[k].err /\ readLog[k].n = readLog[k].req

\* every request so far was answered 200
All200 == \A k \in 1..Len(requests) : requests[k].res.ok /\ requests[k].res.status = 200

\* a finished run in which the seek succeeded, every read was full and
\* every response was 200
CleanRun == Finished /\ SeekSucceeded /\ AllReadsFull /\ All200

\* the Content-Range pairs start at file_start, are contiguous and
\* non-empty, and end at file_end
CoversRange ==
    /\ Len(requests) >= 1
    /\ requests[1].start = file_start
    /\ \A k \in 2..Len(requests) : requests[k].start = requests[k - 1].end
    /\ \A k \in 1..Len(requests) : requests[k].start < requests[k].end
    /\ requests[Len(requests)].end = file_end

\* ------------------------------------------------------------------- C1
\* C1 (as claimed): for 0 <= range_start < range_end <= L and chunk_size > 0,
\* a run with full reads and 200 responses sends Content-Range pairs that
\* are strictly increasing, contiguous from range_start, and whose union is
\* exactly [range_start, range_end).
C1_ContiguousCover ==
    (CleanRun /\ file_start < file_end /\ file_end <= fileLen /\ chunk_size > 0)
        => CoversRange

\* ------------------------------------------------------------------- C2
\* C2: every request sent at cursor c has range_start <= c < range_end and
\* carries bytes c-e/range_end with e = min(c + chunk_size, range_end), so
\* e - c = min(chunk_size, range_end - c); the total is range_end.
C2_HeaderOfEveryRequest ==
    \A k \in 1..Len(requests) :
        LET r == requests[k] IN
        /\ file_start <= r.start /\ r.start < file_end
        /\ r.end = Min(r.start + chunk_size, file_end)
        /\ r.end - r.start = Min(chunk_size, file_end - r.start)
        /\ r.total = file_end

\* a full chunk and then a clamped final chunk were sent, for a range that
\* ends before the end of the file
C2_Witness ==
    /\ Len(requests) = 2
    /\ requests[2].end - requests[2].start < chunk_size
    /\ requests[2].end < requests[2].start + chunk_size
    /\ file_end < fileLen

\* ------------------------------------------------------------------- C3
\* C3: a response with any status other than 200 (201, 204, 503 ...) to the
\* request for chunk k ends the run in Failure, and that request is the
\* last one ever sent.
C3_Non200Aborts ==
    \A k \in 1..Len(requests) :
        (requests[k].res.ok /\ requests[k].res.status # 200)
            => /\ k = Len(requests)
               /\ Finished
               /\ outcome = "Failure"
               /\ Len(readLog) = k

\* the second chunk was answered 201 while part of the range is still unsent
C3_Witness ==
    /\ Len(requests) = 2
    /\ requests[2].res.ok /\ requests[2].res.status = 201
    /\ requests[2].end < file_end
    /\ outcome = "Failure"

\* ------------------------------------------------------------------- C4
\* C4: after a read that returned fewer bytes than requested (0 included),
\* the request for that chunk is the next and the last thing the run does:
\* no further read and no further request, whatever is left of the range.
C4_ShortReadEndsLoop ==
    \A k \in 1..Len(readLog) :
        (~readLog[k].err /\ readLog[k].n < readLog[k].req)
            => /\ k = Len(readLog)
               /\ \/ pc = "send" /\ Len(requests) = k - 1
                  \/ pc = "check" /\ Len(requests) = k
                  \/ pc = "done" /\ Len(requests) = k
               /\ Len(requests) = k => requests[k].start = readLog[k].start

\* a non-empty short read on the first chunk, its request answered 200, the
\* run over with most of the range unsent
C4_Witness ==
    /\ Len(readLog) = 1
    /\ readLog[1].n > 0 /\ readLog[1].n < readLog[1].req
    /\ Len(requests) = 1 /\ requests[1].res.status = 200
    /\ requests[1].end < file_end
    /\ Finished

\* ------------------------------------------------------------------- C5
\* C5: when range_end - range_start is a positive multiple of chunk_size, a
\* run with full reads and 200 responses sends exactly
\* (range_end - range_start) / chunk_size requests, every body exactly
\* chunk_size bytes long, and succeeds.
C5_ExactMultiple ==
    (/\ CleanRun
     /\ file_start < file_end
     /\ chunk_size > 0
     /\ (file_end - file_start) % chunk_size = 0)
        => /\ Len(requests) = (file_end - file_start) \div chunk_size
           /\ \A k \in 1..Len(requests) : Len(requests[k].body) = chunk_size
           /\ outcome = "Success"

\* a finished clean run of three chunks of two bytes
C5_Witness ==
    /\ CleanRun
    /\ chunk_size = 2
    /\ file_end - file_start = 6
    /\ Len(requests) = 3

\* ------------------------------------------------------------------- C6
\* C6 (as claimed): when range_end - range_start is not a multiple of
\* chunk_size, a run with full reads and 200 responses sends
\* floor((range_end - range_start) / chunk_size) full requests and then
\* exactly one short request of (range_end - range_start) mod chunk_size bytes.
C6_ShortFinalChunk ==
    (/\ CleanRun
     /\ file_start < file_end
     /\ chunk_size > 0
     /\ (file_end - file_start) % chunk_size # 0)
        => LET full == (file_end - file_start) \div chunk_size IN
           /\ Len(requests) = full + 1
           /\ \A k \in 1..full : Len(requests[k].body) = chunk_size
           /\ Len(requests[full + 1].body) = (file_end - file_start) % chunk_size

\* ------------------------------------------------------------------- C7
\* C7 (as claimed): for every range_start < range_end and every chunk_size
\* > range_end - range_start, also when range_start + chunk_size exceeds the
\* largest u64, a run whose seek, read and request succeed sends exactly one
\* request, bytes range_start-range_end/range_end, with a body of
\* range_end - range_start bytes.
C7_OneChunkWhenChunkLarger ==
    (/\ Finished
     /\ SeekSucceeded
     /\ \A k \in 1..Len(readLog) : ~readLog[k].err
     /\ file_start < file_end
     /\ chunk_size > file_end - file_start)
        => /\ Len(requests) = 1
           /\ requests[1].start = file_start
           /\ requests[1].end = file_end
           /\ requests[1].total = file_end
           /\ Len(requests[1].body) = file_end - file_start

\* ------------------------------------------------------------------- C8
\* C8: with range_start = range_end and a successful seek, no read and no
\* request is made and the run ends in Success.
C8_EmptyRange ==
    (SeekSucceeded /\ file_start = file_end)
        => /\ readLog = <<>>
           /\ requests = <<>>
           /\ pc \in {"loop", "done"}
           /\ Finished => outcome = "Success"

\* an empty range in the middle of the file, run over
C8_Witness ==
    /\ SeekSucceeded
    /\ file_start = file_end
    /\ file_start > 0
    /\ file_end < fileLen
    /\ outcome = "Success"

\* ------------------------------------------------------------------- C9
\* C9: a request whose send fails at the transport level ends the run in
\* Failure; it is the last request (no retry) and its read the last read.
C9_TransportErrorAborts ==
    \A k \in 1..Len(requests) :
        ~requests[k].res.ok
            => /\ k = Len(requests)
               /\ Finished
               /\ outcome = "Failure"
               /\ Len(readLog) = k

\* the send of the second chunk failed while part of the range is unsent
C9_Witness ==
    /\ Len(requests) = 2
    /\ ~requests[2].res.ok
    /\ requests[2].end < file_end
    /\ outcome = "Failure"

\* ------------------------------------------------------------------ C10
\* C10: a failed seek, or a read that returns an I/O error, ends the run in
\* a failure (never Success); the failing call is the last of its kind and
\* no request is sent at or after it.
C10_IoErrorAborts ==
    /\ \A k \in 1..Len(seekLog) :
        seekLog[k].err
            => /\ Len(seekLog) = 1
               /\ Finished /\ outcome = "Failure"
               /\ readLog = <<>> /\ requests = <<>>
    /\ \A k \in 1..Len(readLog) :
        readLog[k].err
            => /\ k = Len(readLog)
               /\ Len(seekLog) = 1
               /\ Finished /\ outcome = "Failure"
               /\ Len(requests) = k - 1

\* the read of the second chunk failed after the first chunk was sent
C10_Witness ==
    /\ Len(readLog) = 2
    /\ readLog[2].err
    /\ Len(requests) = 1
    /\ outcome = "Failure"
\* ------------------------------------------------------------------ C11
\* C11: no chunk is sent twice: each request's start is the previous
\* request's start plus chunk_size and strictly greater, every request
\* before the last was answered 200, and a request that failed (non-200 or
\* transport error) is the last request of the run.
C11_NoChunkResent ==
    /\ \A k \in 2..Len(requests) :
        /\ requests[k].start = requests[k - 1].start + chunk_size
        /\ requests[k].start > requests[k - 1].start
    /\ \A j, k \in 1..Len(requests) : j # k => requests[j].start # requests[k].start
    /\ \A k \in 1..Len(requests) :
        SendFails(requests[k].res) => (k = Len(requests) /\ Finished)

\* three chunks sent, the first two answered 200, the third failed
C11_Witness ==
    /\ Len(requests) = 3
    /\ requests[1].res.status = 200 /\ requests[2].res.status = 200
    /\ requests[3].res.status = 503
    /\ requests[3].end < file_end
\* ------------------------------------------------------------------ C12
\* the loop is about to end: the loop test fails with the cursor at or past
\* range_end, or the termination check sees a read shorter than chunk_size
LoopEnds ==
    \/ pc = "loop" /\ ~(start < file_end)
    \/ pc = "check" /\ (n = 0 \/ n < chunk_size)

\* C12: when the loop ends, by the cursor reaching range_end or by a read
\* of fewer than chunk_size bytes, the run ends in Success; a Success run
\* had every request answered 200 and no I/O error; and once the run has
\* ended (Success or Failure) nothing changes any more: no read, no request.
C12_SuccessAndTerminal ==
    [][/\ LoopEnds => (pc' = "done" /\ outcome' = "Success")
       /\ outcome' = "Success" => (SeekSucceeded' /\ All200'
                                    /\ \A k \in 1..Len(readLog') : ~readLog'[k].err)
       /\ pc # "done"]_vars

\* Success after the second read came back short, part of the range unsent
C12_Witness ==
    /\ outcome = "Success"
    /\ Len(readLog) = 2
    /\ readLog[2].n < readLog[2].req
    /\ Len(requests) = 2
    /\ requests[2].end < file_end
\* ------------------------------------------------------------------ C13
\* C13: the body of request k is exactly end - start bytes long, also after
\* a short read: its first n bytes are the bytes the read stored (the
\* source bytes from the handle's position on) and the rest are zero.
C13_BodyIsWholeBuffer ==
    \A k \in 1..Len(requests) :
        LET r == requests[k]
            rd == readLog[k]
        IN  /\ Len(r.body) = r.end - r.start
            /\ \A i \in 1..Len(r.body) :
                r.body[i] = IF i <= rd.n THEN SourceByte(rd.pos + i - 1) ELSE 0

\* a request sent after a read that stored one byte of a three-byte buffer
C13_Witness ==
    /\ Len(requests) = 1
    /\ readLog[1].n = 1
    /\ Len(requests[1].body) = 3
    /\ requests[1].body[1] # 0
    /\ requests[1].body[3] = 0
\* ------------------------------------------------------------------ C14
\* C14: do_upload seeks exactly once, to range_start, before the first
\* read, and with chunk_size > 0 the file position at every read equals
\* the cursor that goes into that chunk's Content-Range header.
C14_ReadsAtCursor ==
    /\ Len(seekLog) <= 1
    /\ pc \in {"loop", "read", "send", "check"} => Len(seekLog) = 1
    /\ (Finished /\ reason # "ConfigError") => Len(seekLog) = 1
    /\ \A k \in 1..Len(seekLog) : seekLog[k].offset = file_start
    /\ readLog # <<>> => SeekSucceeded
    /\ chunk_size > 0 =>
        \A k \in 1..Len(readLog) :
            /\ readLog[k].pos = readLog[k].start
            /\ k <= Len(requests) => requests[k].start = readLog[k].pos

\* the third read of a run that started at a non-zero offset
C14_Witness ==
    /\ Len(readLog) = 3
    /\ file_start > 0
    /\ readLog[3].pos = file_start + 2 * chunk_size
    /\ ~readLog[3].err
    /\ Len(seekLog) = 1
\* ------------------------------------------------------------------ C15
\* C15 (as claimed): the range main hands to do_upload satisfies
\* range_start <= range_end <= file length; a command line whose range does
\* not is rejected with a failure exit before any seek, read or request;
\* without -r the range is (0, file length).
C15_RangeValidated ==
    /\ (pc # "main" /\ reason # "ConfigError")
        => (file_start <= file_end /\ file_end <= fileLen)
    /\ (pc # "main" /\ file_range.some
            /\ ~(file_range.start <= file_range.end /\ file_range.end <= fileLen))
        => /\ Finished /\ outcome = "Failure" /\ reason = "ConfigError"
           /\ seekLog = <<>> /\ readLog = <<>> /\ requests = <<>>
    /\ (pc # "main" /\ ~file_range.some)
        => (file_start = 0 /\ file_end = fileLen)
\* ------------------------------------------------------------------ C16
Ceil(a, b) == (a + b - 1) \div b

\* number of read calls so far that returned Ok
OkReads == Cardinality({k \in 1..Len(readLog) : ~readLog[k].err})

\* C16 (as claimed), as the result a finished run must show: for
\* range_start <= range_end and chunk_size > 0 the run makes at most
\* ceil((range_end - range_start) / chunk_size) reads and as many requests,
\* one request per successful read, and its terminal outcome is Success or
\* Failure.
C16_TerminalOutcomeWithinBound ==
    (pc # "main" /\ reason # "ConfigError" /\ file_start <= file_end /\ chunk_size > 0)
        => /\ Len(readLog) <= Ceil(file_end - file_start, chunk_size)
           /\ Len(requests) <= Ceil(file_end - file_start, chunk_size)
           /\ Len(requests) = IF pc = "send" THEN OkReads - 1 ELSE OkReads
           /\ Finished => outcome \in {"Success", "Failure"}

\* the part of C16 that holds: when every call returns, every run ends
C16_RunEnds == <>Finished
\* ------------------------------------------------------------------ C17
\* C17 (as claimed): after a Success run with range_start < range_end and
\* chunk_size > 0, every offset of [range_start, range_end) lies in the
\* interval of a request, and every body byte equals the source byte at the
\* offset it was sent for, short reads included.
C17_SuccessMeansUploaded ==
    (outcome = "Success" /\ file_start < file_end /\ chunk_size > 0)
        => /\ \A off \in file_start..(file_end - 1) :
                \E k \in 1..Len(requests) :
                    requests[k].start <= off /\ off < requests[k].end
           /\ \A k \in 1..Len(requests) :
                \A i \in 1..Len(requests[k].body) :
                    requests[k].body[i] = SourceByte(requests[k].start + i - 1)
\* ------------------------------------------------------------------ C18
\* C18: chunk_size = 0 is accepted; with range_start < range_end the run
\* makes at most one read and one request, the request is
\* bytes range_start-range_start/range_end with an empty body, it is sent
\* whenever seek and read succeed, and on a 200 the run ends in Success.
C18_ZeroChunkSize ==
    (chunk_size = 0 /\ pc # "main" /\ reason # "ConfigError" /\ file_start < file_end)
        => /\ Len(readLog) <= 1
           /\ Len(requests) <= 1
           /\ \A k \in 1..Len(requests) :
                /\ requests[k].start = file_start
                /\ requests[k].end = file_start
                /\ requests[k].total = file_end
                /\ requests[k].body = <<>>
           /\ (Finished /\ SeekSucceeded /\ \A k \in 1..Len(readLog) : ~readLog[k].err)
                => Len(requests) = 1
           /\ (Finished /\ Len(requests) = 1 /\ All200) => outcome = "Success"

\* a run with chunk_size = 0 over a non-empty range that ended in Success
C18_Witness ==
    /\ chunk_size = 0
    /\ file_start < file_end
    /\ Len(requests) = 1
    /\ requests[1].body = <<>>
    /\ outcome = "Success"
====
